---- MODULE Spec2Model ----
(***************************************************************************)
(* Model of ClassroomTracker (src/app.py): the frame loop                  *)
(* detect_and_track, the per-detection state machine                       *)
(* update_person_tracking and the geometry helpers create_fixed_zone and   *)
(* is_box_in_zone.                                                         *)
(*                                                                         *)
(* The results of one frame are a number of boxes, `remaining` counts the   *)
(* ones the loop has not iterated yet.                                     *)
(*                                                                         *)
(* Time: time.time() returns seconds; the model counts clock readings in   *)
(* ticks of 1/TicksPerSecond second.  `now` is the value of the most       *)
(* recent clock reading; every reading returns the previous one plus a     *)
(* step of ClockSteps (a non-decreasing clock).                            *)
(*                                                                         *)
(* The key None of student_tracking (a detection without tracker id) is    *)
(* written NoneId; the tracker's own ids are positive.  An absent value    *)
(* (Python None) of fixed_zone is the empty tuple.                         *)
(***************************************************************************)
EXTENDS Integers, Sequences, FiniteSets, TLC

VARIABLES
    student_tracking,   \* self.student_tracking: dict id -> track record
    now,                \* last value returned by time.time(), in ticks
    pc,                 \* position of detect_and_track: read, process, done
    last,               \* the most recent call of update_person_tracking
    seen,               \* ids passed to update_person_tracking in the current frame
    missed,             \* ids without a zone that some finished frame since their
                        \* first observation did not contain
    remaining,          \* boxes of the current frame's results not yet iterated
    g_bbox,             \* geometry harness: argument box
    g_zone,             \* geometry harness: zone
    g_result            \* geometry harness: result of the last application

vars == <<student_tracking, now, pc, last, seen, missed, remaining, g_bbox, g_zone, g_result>>

trackerVars == <<student_tracking, now, pc, last, seen, missed, remaining>>
geomVars == <<g_bbox, g_zone, g_result>>

----------------------------------------------------------------------------
(* Bounds and program constants *)

MaxTime == 22
MaxBoxes == 2
GeomMax == 3
GeomStep == 10

TicksPerSecond == 10
DwellThreshold == 2
PersonClass == 0
NoneId == 0

None == <<>>
GREEN == <<0, 255, 0>>
RED == <<0, 0, 255>>

DwellTicks == DwellThreshold * TicksPerSecond

\* ids a detection can carry: int(box.id[0]) or None
Ids == {NoneId, 1}

\* classes a detection can carry
Classes == {PersonClass, PersonClass + 1}

\* advance of the clock between two readings, in ticks
ClockSteps == {0, TicksPerSecond, TicksPerSecond + 1}

\* boxes the detector reports, (x1, y1, x2, y2)
Boxes == { <<10, 10, 50, 50>>, <<12, 12, 52, 52>>, <<14, 14, 54, 54>> }

\* the boxes of the runs checked for liveness
LiveBoxes == { <<10, 10, 50, 50>>, <<14, 14, 54, 54>> }

\* boxes as update_person_tracking would take them from any caller: one
\* valid, one with both axes inverted, one with x1 > x2 only
RawBoxes == { <<10, 10, 50, 50>>, <<50, 50, 10, 10>>, <<50, 10, 10, 50>> }

----------------------------------------------------------------------------
(* Geometry helpers *)

\* variant: the margin rounded to the nearest integer
IntOfFivePercent_Rounded(w) == IF w >= 0 THEN (w + 10) \div 20 ELSE -((10 - w) \div 20)

\* Python int() of a product w * 0.05: truncation toward zero of w / 20
IntOfFivePercent(w) == IF w >= 0 THEN w \div 20 ELSE -((-w) \div 20)

\* variant: the left edge moved inward instead of outward
create_fixed_zone_LeftInward(bbox) ==
    LET margin_x == IntOfFivePercent(bbox[3] - bbox[1])
        margin_y == IntOfFivePercent(bbox[4] - bbox[2])
    IN  << <<bbox[1] + margin_x, bbox[2] - margin_y>>,
           <<bbox[3] + margin_x, bbox[4] + margin_y>> >>

\* variant: the bottom edge left where it is
create_fixed_zone_NoBottom(bbox) ==
    LET margin_x == IntOfFivePercent(bbox[3] - bbox[1])
        margin_y == IntOfFivePercent(bbox[4] - bbox[2])
    IN  << <<bbox[1] - margin_x, bbox[2] - margin_y>>,
           <<bbox[3] + margin_x, bbox[4]>> >>

create_fixed_zone(bbox) ==
    LET x1 == bbox[1]
        y1 == bbox[2]
        x2 == bbox[3]
        y2 == bbox[4]
        width == x2 - x1
        height == y2 - y1
        margin_x == IntOfFivePercent(width)
        margin_y == IntOfFivePercent(height)
        new_x1 == x1 - margin_x
        new_y1 == y1 - margin_y
        new_x2 == x2 + margin_x
        new_y2 == y2 + margin_y
    IN  << <<new_x1, new_y1>>, <<new_x2, new_y2>> >>

\* variant: only the corner (x1, y1) is tested
is_box_in_zone_FirstCorner(bbox, zone) ==
    /\ zone[1][1] <= bbox[1] /\ bbox[1] <= zone[2][1]
    /\ zone[1][2] <= bbox[2] /\ bbox[2] <= zone[2][2]

is_box_in_zone(bbox, zone) ==
    LET start_x == zone[1][1]
        start_y == zone[1][2]
        end_x == zone[2][1]
        end_y == zone[2][2]
        x1 == bbox[1]
        y1 == bbox[2]
        x2 == bbox[3]
        y2 == bbox[4]
    IN  /\ start_x <= x1 /\ x1 <= end_x
        /\ start_y <= y1 /\ y1 <= end_y
        /\ start_x <= x2 /\ x2 <= end_x
        /\ start_y <= y2 /\ y2 <= end_y

\* cv2.rectangle(frame, pt1, pt2, color, 2): one draw instruction
Rect(pt1, pt2, color) == << <<pt1, pt2>>, color >>

----------------------------------------------------------------------------
(* update_person_tracking *)

\* variants of the dwell test: without the test for an absent zone, with a
\* strict comparison, with half the threshold, against the clock itself
DwellElapsed_NoZoneTest(student_info, current_time) ==
    current_time - student_info.creation_time >= DwellTicks

DwellElapsed_Strict(student_info, current_time) ==
    /\ student_info.fixed_zone = None
    /\ current_time - student_info.creation_time > DwellTicks

DwellElapsed_Half(student_info, current_time) ==
    /\ student_info.fixed_zone = None
    /\ 2 * (current_time - student_info.creation_time) >= DwellTicks

DwellElapsed_Absolute(student_info, current_time) ==
    /\ student_info.fixed_zone = None
    /\ current_time >= DwellTicks

\* the dwell test of line 89
DwellElapsed(student_info, current_time) ==
    /\ student_info.fixed_zone = None
    /\ current_time - student_info.creation_time >= DwellTicks

\* variant: the zone made from the box stored by the previous observation
ZoneSource_Stored(student_info, bbox) == student_info.current_bbox

\* the box the zone is made from (line 91)
ZoneSource(student_info, bbox) == bbox

\* variant: the two colors exchanged
OccupancyColor_Swapped(is_in_zone) == IF is_in_zone THEN RED ELSE GREEN

\* occupancy color (line 103)
OccupancyColor(is_in_zone) == IF is_in_zone THEN GREEN ELSE RED

\* variants of the test of line 73: every id taken as new; the key None
\* taken as new every time
IsNew_Always(reg, track_id) == TRUE

IsNew_NoneFresh(reg, track_id) == track_id = NoneId \/ track_id \notin DOMAIN reg

\* the test of line 73: track_id not in self.student_tracking
IsNew(reg, track_id) == track_id \notin DOMAIN reg

\* variant: a new track stamped with time 0 instead of the clock
NewTrack_Epoch(bbox, t) ==
    [current_bbox |-> bbox, creation_time |-> 0, fixed_zone |-> None]

\* variant: a new track given a zone at once
NewTrack_Zoned(bbox, t) ==
    [current_bbox |-> bbox, creation_time |-> t, fixed_zone |-> create_fixed_zone(bbox)]

\* the record made for a new track (lines 75-79)
NewTrack(bbox, t) ==
    [current_bbox |-> bbox, creation_time |-> t, fixed_zone |-> None]

\* variant: line 111 left out
StoredBox_Kept(student_info, bbox) == student_info.current_bbox

\* the box stored as current_bbox (line 111)
StoredBox(student_info, bbox) == bbox

\* variants: the other entries dropped; the stored box written to every entry
Store_Alone(reg, track_id, info) == [k \in {track_id} |-> info]

Store_Shared(reg, track_id, info) ==
    [k \in DOMAIN reg \cup {track_id} |->
        IF k = track_id THEN info
        ELSE [reg[k] EXCEPT !.current_bbox = info.current_bbox]]

\* the registry reg with entry track_id replaced or added
Store(reg, track_id, info) ==
    [k \in DOMAIN reg \cup {track_id} |->
        IF k = track_id THEN info ELSE reg[k]]

\* variant: the zone always outlined in green
draw_zone_Green(zone, color) == Rect(zone[1], zone[2], GREEN)

\* draw_zone(frame, zone, color)
draw_zone(zone, color) == Rect(zone[1], zone[2], color)

\* what one call update_person_tracking(frame, bbox, track_id) makes of the
\* registry reg when its clock reading returns t: the registry afterwards,
\* the branch taken, the box stored before and the draw instructions
UpdateResult(reg, bbox, track_id, t) ==
    LET x1 == bbox[1]
        y1 == bbox[2]
        x2 == bbox[3]
        y2 == bbox[4]
    IN
    IF IsNew(reg, track_id)
    THEN
        [registry |-> Store(reg, track_id, NewTrack(bbox, t)),
         path |-> "new",
         prev_bbox |-> None,
         draws |-> << Rect(<<x1, y1>>, <<x2, y2>>, GREEN) >>]
    ELSE
        LET student_info == reg[track_id]
            current_time == t
            freeze == DwellElapsed(student_info, current_time)
            box2 == IF freeze
                    THEN create_fixed_zone(ZoneSource(student_info, bbox))
                    ELSE student_info.fixed_zone
            draws1 == IF freeze THEN << draw_zone(box2, GREEN) >> ELSE << >>
            is_in_zone == is_box_in_zone(bbox, box2)
            color == OccupancyColor(is_in_zone)
            draws2 == IF box2 # None
                      THEN << Rect(<<x1, y1>>, <<x2, y2>>, color),
                              draw_zone(box2, color) >>
                      ELSE << >>
        IN
        [registry |-> Store(reg, track_id,
                         [current_bbox |-> StoredBox(student_info, bbox),
                          creation_time |-> student_info.creation_time,
                          fixed_zone |-> box2]),
         path |-> IF freeze THEN "freeze"
                  ELSE IF box2 # None THEN "zoned" ELSE "pending",
         prev_bbox |-> student_info.current_bbox,
         draws |-> draws1 \o draws2]

\* one call update_person_tracking(frame, bbox, track_id) whose clock
\* reading returns t
update_person_tracking(bbox, track_id, t) ==
    LET result == UpdateResult(student_tracking, bbox, track_id, t)
        freeze == result.path = "freeze"
    IN  /\ student_tracking' = result.registry
        /\ last' = [path |-> result.path, track_id |-> track_id, bbox |-> bbox,
                    prev_bbox |-> result.prev_bbox,
                    missed |-> freeze /\ track_id \in missed,
                    draws |-> result.draws]
        /\ missed' = IF freeze THEN missed \ {track_id} ELSE missed

----------------------------------------------------------------------------
(* detect_and_track *)

NoCall == [path |-> "none", track_id |-> NoneId, bbox |-> None,
           prev_bbox |-> None, missed |-> FALSE, draws |-> << >>]

TrackerInit ==
    /\ student_tracking = << >>
    /\ now = 0
    /\ pc = "read"
    /\ last = NoCall
    /\ seen = {}
    /\ missed = {}
    /\ remaining = 0

\* self.cap.read() with ret true, then self.model.track(frame, ...)
ReadFrame ==
    /\ pc = "read"
    /\ pc' = "process"
    /\ \E n \in 0..MaxBoxes : remaining' = n
    /\ UNCHANGED <<student_tracking, now, last, seen, missed>>
    /\ UNCHANGED geomVars

\* self.cap.read() with ret false: warning and break
EndOfStream ==
    /\ pc = "read"
    /\ pc' = "done"
    /\ UNCHANGED <<student_tracking, now, last, seen, missed, remaining>>
    /\ UNCHANGED geomVars

\* one iteration of the loop over boxes (lines 44-55)
Detection(cls, track_id, bbox, d) ==
    /\ pc = "process"
    /\ remaining > 0
    /\ now + d <= MaxTime
    /\ remaining' = remaining - 1
    /\ IF cls = PersonClass
       THEN /\ now' = now + d
            /\ update_person_tracking(bbox, track_id, now + d)
            /\ seen' = seen \cup {track_id}
       ELSE UNCHANGED <<student_tracking, now, last, seen, missed>>
    /\ UNCHANGED pc
    /\ UNCHANGED geomVars

ProcessDetection ==
    \E cls \in Classes, track_id \in Ids, bbox \in Boxes, d \in ClockSteps :
        Detection(cls, track_id, bbox, d)

\* the same with boxes that need not be valid
ProcessRawDetection ==
    \E cls \in Classes, track_id \in Ids, bbox \in RawBoxes, d \in ClockSteps :
        Detection(cls, track_id, bbox, d)

\* the same with the boxes of LiveBoxes only
ProcessLiveDetection ==
    \E cls \in Classes, track_id \in Ids, bbox \in LiveBoxes, d \in ClockSteps :
        Detection(cls, track_id, bbox, d)

\* variant: the loop over the boxes left before its end
DisplayFrame_Early ==
    /\ pc = "process"
    /\ pc' = "read"
    /\ missed' = missed \cup
           {k \in DOMAIN student_tracking \ seen : student_tracking[k].fixed_zone = None}
    /\ seen' = {}
    /\ remaining' = 0
    /\ UNCHANGED <<student_tracking, now, last>>
    /\ UNCHANGED geomVars

\* end of the loop over results: display the frame and sleep (lines 57-64)
DisplayFrame ==
    /\ pc = "process"
    /\ remaining = 0
    /\ pc' = "read"
    /\ UNCHANGED remaining
    /\ missed' = missed \cup
           {k \in DOMAIN student_tracking \ seen : student_tracking[k].fixed_zone = None}
    /\ seen' = {}
    /\ UNCHANGED <<student_tracking, now, last>>
    /\ UNCHANGED geomVars

----------------------------------------------------------------------------
(* Geometry harness: create_fixed_zone and is_box_in_zone applied to boxes  *)
(* and zones drawn from a grid                                             *)

GeomCoords == { c * GeomStep : c \in 0..GeomMax }

\* valid boxes (x1 <= x2, y1 <= y2) on the grid
GeomBoxes ==
    { <<x1, y1, x2, y2>> : x1 \in GeomCoords, y1 \in GeomCoords,
                           x2 \in GeomCoords, y2 \in GeomCoords }
        \cap { b \in Seq(Int) : b[1] <= b[3] /\ b[2] <= b[4] }

GeomUntouched == [expanded |-> FALSE, tested |-> FALSE, in_zone |-> FALSE]

GeomIdle ==
    /\ g_bbox = None
    /\ g_zone = None
    /\ g_result = GeomUntouched

GeomInit ==
    /\ g_bbox \in GeomBoxes
    /\ g_zone \in { << <<b[1], b[2]>>, <<b[3], b[4]>> >> : b \in GeomBoxes }
    /\ g_result = GeomUntouched

\* g_zone := create_fixed_zone(g_bbox)
GeomExpand ==
    /\ ~g_result.expanded
    /\ g_zone' = create_fixed_zone(g_bbox)
    /\ g_result' = [expanded |-> TRUE, tested |-> FALSE, in_zone |-> FALSE]
    /\ UNCHANGED g_bbox
    /\ UNCHANGED trackerVars

\* is_box_in_zone(g_bbox, g_zone)
GeomContains ==
    /\ ~g_result.tested
    /\ g_result' = [g_result EXCEPT !.tested = TRUE,
                                    !.in_zone = is_box_in_zone(g_bbox, g_zone)]
    /\ UNCHANGED <<g_bbox, g_zone>>
    /\ UNCHANGED trackerVars

----------------------------------------------------------------------------
(* Specifications *)

Init == TrackerInit /\ GeomIdle

Next ==
    \/ ReadFrame
    \/ EndOfStream
    \/ ProcessDetection
    \/ DisplayFrame

Spec == Init /\ [][Next]_vars

\* the frame loop keeps running while it can take a step
NextLive ==
    \/ ReadFrame
    \/ EndOfStream
    \/ ProcessLiveDetection
    \/ DisplayFrame

SpecLive == Init /\ [][NextLive]_vars /\ WF_vars(NextLive)

\* the tracker fed with boxes that need not be valid
NextRaw ==
    \/ ReadFrame
    \/ EndOfStream
    \/ ProcessRawDetection
    \/ DisplayFrame

SpecRaw == Init /\ [][NextRaw]_vars

InitGeom == TrackerInit /\ GeomInit

NextGeom ==
    \/ GeomExpand
    \/ GeomContains

SpecGeom == InitGeom /\ [][NextGeom]_vars

----------------------------------------------------------------------------
(* Properties of the tracker *)

Known(id) == id \in DOMAIN student_tracking

Zoned(id) == Known(id) /\ student_tracking[id].fixed_zone # None

Pending(id) == Known(id) /\ student_tracking[id].fixed_zone = None

\* time between the first observation of id and the latest clock reading
Elapsed(id) == now - student_tracking[id].creation_time

\* the latest call of update_person_tracking found its track registered
LastKnown == last.path \in {"pending", "freeze", "zoned"}

\* C1: once fixed_zone of a track is set, every later step leaves it present
\* and equal to the value it was first given, and the dwell branch sets a
\* zone only for a track that had none.
C1_ZoneWriteOnce ==
    [][ /\ \A id \in Ids :
             Zoned(id) =>
                 /\ id \in DOMAIN student_tracking'
                 /\ student_tracking'[id].fixed_zone = student_tracking[id].fixed_zone
        /\ (last'.path = "freeze" /\ student_tracking' # student_tracking) =>
                 Pending(last'.track_id) ]_vars

\* a track with a zone was observed again, late enough and with a box whose
\* expansion differs from the zone, and kept the zone
C1_Witness ==
    \E id \in Ids :
        /\ Zoned(id)
        /\ last.path = "zoned" /\ last.track_id = id
        /\ Elapsed(id) >= DwellTicks
        /\ last.bbox # last.prev_bbox
        /\ student_tracking[id].fixed_zone # create_fixed_zone(last.bbox)

\* C2: while less than the dwell threshold has elapsed since the first
\* observation of a track, its zone is absent, however often it was
\* observed; a track with a zone is at least the threshold old.
C2_NoZoneBeforeDwell ==
    \A id \in Ids :
        (Known(id) /\ Elapsed(id) < DwellTicks) => student_tracking[id].fixed_zone = None

\* a registered track observed again before the threshold, still without zone
C2_Witness ==
    /\ last.path = "pending"
    /\ Elapsed(last.track_id) > 0
    /\ Elapsed(last.track_id) < DwellTicks
    /\ Pending(last.track_id)

\* a detection of id is handed to update_person_tracking
Observe(id) ==
    \E bbox \in LiveBoxes, d \in ClockSteps : Detection(PersonClass, id, bbox, d)

\* C3: a registered track observed at least the dwell threshold after its
\* first observation has a zone when the call returns; so a track that
\* keeps being observed and whose age reaches the threshold is eventually
\* zoned for ever.
C3_FreezeOnFirstQualifying ==
    /\ [](LastKnown /\ Elapsed(last.track_id) >= DwellTicks => Zoned(last.track_id))
    /\ \A id \in Ids :
          ([]<><<Observe(id)>>_vars /\ <>(Known(id) /\ Elapsed(id) >= DwellTicks))
              => <>[]Zoned(id)

\* the freezing call, made exactly at the threshold
C3_Witness ==
    /\ last.path = "freeze"
    /\ Elapsed(last.track_id) = DwellTicks
    /\ Zoned(last.track_id)

\* C4 as stated: a zone is frozen only for a track that was in every frame
\* between its first observation and the freezing frame.
C4_ContinuouslyObserved ==
    last.path = "freeze" => ~last.missed

\* C4 amended: a zone appears only in a call of update_person_tracking for
\* that track, already registered, made at least the dwell threshold after
\* its first observation; the frames in between need not contain the track.
C4_FrozenOnLateObservation ==
    [][ \A id \in Ids :
          (~Zoned(id) /\ id \in DOMAIN student_tracking'
                      /\ student_tracking'[id].fixed_zone # None) =>
              /\ Known(id)
              /\ pc = "process"
              /\ last'.path = "freeze" /\ last'.track_id = id
              /\ id \in seen'
              /\ now' - student_tracking[id].creation_time >= DwellTicks ]_vars

\* a zone frozen for a track that a finished frame did not contain
C4_Witness ==
    /\ last.path = "freeze"
    /\ last.missed
    /\ Zoned(last.track_id)

\* C5: the zone frozen by a call is the 5% expansion of the box passed to
\* that call; in the run id 1 at t=0, t=1 (12,12,52,52), t=2.1 (14,14,54,54)
\* there is no zone after the second observation and the zone after the
\* third is (12,12)-(56,56).
C5_ZoneFromTriggeringBox ==
    /\ last.path = "freeze" =>
           student_tracking[last.track_id].fixed_zone = create_fixed_zone(last.bbox)
    /\ ( /\ LastKnown /\ last.track_id = 1
         /\ student_tracking[1].creation_time = 0
         /\ now = TicksPerSecond
         /\ last.bbox = <<12, 12, 52, 52>> ) => student_tracking[1].fixed_zone = None
    /\ ( /\ LastKnown /\ last.track_id = 1
         /\ student_tracking[1].creation_time = 0
         /\ now = 2 * TicksPerSecond + 1
         /\ last.prev_bbox = <<12, 12, 52, 52>>
         /\ last.bbox = <<14, 14, 54, 54>>
         /\ last.path # "zoned" ) =>
             student_tracking[1].fixed_zone = << <<12, 12>>, <<56, 56>> >>

\* the third observation of the run: the zone is frozen from its box, which
\* differs from the stored one
C5_Witness ==
    /\ last.path = "freeze" /\ last.track_id = 1
    /\ student_tracking[1].creation_time = 0
    /\ now = 2 * TicksPerSecond + 1
    /\ last.prev_bbox = <<12, 12, 52, 52>>
    /\ last.bbox = <<14, 14, 54, 54>>
    /\ student_tracking[1].fixed_zone = << <<12, 12>>, <<56, 56>> >>

\* the shape cv2.rectangle draws for a box (x1, y1, x2, y2)
BoxShape(bbox) == << <<bbox[1], bbox[2]>>, <<bbox[3], bbox[4]>> >>

\* C6: a call for a track that has a zone when the call returns ends with
\* two draw instructions, the current box and then the zone, both in one
\* color, which is green exactly if is_box_in_zone(bbox, fixed_zone) holds
\* for the box of this call and red otherwise.
C6_OccupancyColor ==
    last.path \in {"freeze", "zoned"} =>
        LET zone == student_tracking[last.track_id].fixed_zone
            n == Len(last.draws)
            box_draw == last.draws[n - 1]
            zone_draw == last.draws[n]
        IN  /\ zone # None
            /\ n >= 2
            /\ box_draw[1] = BoxShape(last.bbox)
            /\ zone_draw[1] = zone
            /\ box_draw[2] = zone_draw[2]
            /\ box_draw[2] \in {GREEN, RED}
            /\ box_draw[2] = GREEN <=> is_box_in_zone(last.bbox, zone)
            /\ box_draw[2] = RED <=> ~is_box_in_zone(last.bbox, zone)

\* a track drawn green whose previous observation, with the same zone, was
\* outside the zone
C6_Witness ==
    /\ last.path = "zoned"
    /\ ~is_box_in_zone(last.prev_bbox, student_tracking[last.track_id].fixed_zone)
    /\ is_box_in_zone(last.bbox, student_tracking[last.track_id].fixed_zone)
    /\ last.draws[1][2] = GREEN

\* a box with x1 > x2 or y1 > y2
Inverted(bbox) == bbox[1] > bbox[3] \/ bbox[2] > bbox[4]

\* the step iterates one box of the results
BoxStep == pc = "process" /\ remaining' < remaining

\* the step is a call of update_person_tracking that the record `last` shows
CallStep == BoxStep /\ last' # last

\* C11 as stated: a call of update_person_tracking with an inverted box
\* leaves the registry exactly as it was.
C11_InvertedBoxRejected ==
    [][ (BoxStep /\ last'.path # "none" /\ Inverted(last'.bbox)) =>
            student_tracking' = student_tracking ]_vars

C13_CreationTimeFixed ==
    [][ /\ \A id \in Ids :
             Known(id) =>
                 /\ id \in DOMAIN student_tracking'
                 /\ student_tracking'[id].creation_time =
                        student_tracking[id].creation_time
        /\ \A id \in Ids :
             (~Known(id) /\ id \in DOMAIN student_tracking') =>
                 student_tracking'[id].creation_time = now'
        /\ (CallStep /\ last'.path = "new") => ~Known(last'.track_id) ]_vars

\* a track observed again at a later clock reading than its first
C13_Witness ==
    /\ LastKnown
    /\ Elapsed(last.track_id) > 0
    /\ student_tracking[last.track_id].creation_time > 0
    /\ student_tracking[last.track_id].creation_time < now

\* C14: after every call of update_person_tracking(frame, bbox, id) the
\* registry's current_bbox of id is the bbox of that call.
C14_CurrentBoxIsLatest ==
    last.path # "none" =>
        /\ Known(last.track_id)
        /\ student_tracking[last.track_id].current_bbox = last.bbox

\* a call that replaced the stored box of a track with a zone by another
C14_Witness ==
    /\ last.path = "zoned"
    /\ last.prev_bbox # last.bbox
    /\ student_tracking[last.track_id].current_bbox = last.bbox

\* C15: the set of registered ids only grows, and a registered track not
\* observed in the current frame keeps its current_bbox, creation_time and
\* fixed_zone.
C15_TracksNeverRemoved ==
    [][ \A id \in Ids :
          Known(id) =>
              /\ id \in DOMAIN student_tracking'
              /\ (pc # "process" \/ id \notin seen') =>
                     student_tracking'[id] = student_tracking[id] ]_vars

\* track 1, absent from a finished frame, still registered while the other
\* track was observed at a later time
C15_Witness ==
    /\ Known(1) /\ 1 \in missed
    /\ last.track_id = NoneId /\ last.path # "none"
    /\ 1 \notin seen
    /\ now > student_tracking[1].creation_time

\* C16: after the call that registers a new id the track holds the box of
\* the call, the clock reading of the call and no zone, and the call drew
\* the box in green once and nothing else.
C16_FirstObservation ==
    last.path = "new" =>
        /\ Known(last.track_id)
        /\ student_tracking[last.track_id] =
               [current_bbox |-> last.bbox, creation_time |-> now, fixed_zone |-> None]
        /\ last.draws = << <<BoxShape(last.bbox), GREEN>> >>

\* a new id registered at a later clock reading, beside a track with a zone
C16_Witness ==
    /\ last.path = "new"
    /\ now > 0
    /\ student_tracking[last.track_id].creation_time = now
    /\ \E k \in Ids : Zoned(k)

\* C17: a call draws 1 rectangle (the box, green) for a new id, none for a
\* registered track still waiting, 3 on the freezing call (zone in green,
\* then box and zone in the occupancy color) and 2 (box, then zone, same
\* color) for a track whose zone was set before.
C17_DrawInstructions ==
    LET id == last.track_id
        zone == student_tracking[id].fixed_zone
        n == Len(last.draws)
    IN
    /\ last.path = "new" =>
           /\ n = 1
           /\ last.draws[1] = <<BoxShape(last.bbox), GREEN>>
    /\ last.path = "pending" =>
           /\ n = 0
           /\ zone = None /\ Elapsed(id) < DwellTicks
    /\ last.path = "freeze" =>
           /\ n = 3
           /\ last.draws[1] = <<zone, GREEN>>
           /\ last.draws[2][1] = BoxShape(last.bbox)
           /\ last.draws[3][1] = zone
           /\ last.draws[2][2] = last.draws[3][2]
           /\ last.draws[2][2] \in {GREEN, RED}
    /\ last.path = "zoned" =>
           /\ n = 2
           /\ last.draws[1][1] = BoxShape(last.bbox)
           /\ last.draws[2][1] = zone
           /\ last.draws[1][2] = last.draws[2][2]
           /\ last.draws[1][2] \in {GREEN, RED}

\* a track with an earlier zone drawn in red, box and zone
C17_Witness ==
    /\ last.path = "zoned"
    /\ Len(last.draws) = 2
    /\ last.draws[1][2] = RED /\ last.draws[2][2] = RED

\* clock readings of the next calls
NextReadings == { now + d : d \in ClockSteps }

\* the registry after a call for a and then a call for b
AfterBoth(a, bbox_a, t_a, b, bbox_b, t_b) ==
    UpdateResult(UpdateResult(student_tracking, bbox_a, a, t_a).registry,
                 bbox_b, b, t_b).registry

\* C18: a call for one id leaves the entry of every other id unchanged, and
\* when two boxes of a frame are left, calls for two different
\* ids, each with its own box and clock reading, give the same registry in
\* either order.
C18_TracksIndependent ==
    /\ [][ \A id \in Ids :
              (Known(id) /\ (last' = last \/ last'.track_id # id)) =>
                  /\ id \in DOMAIN student_tracking'
                  /\ student_tracking'[id] = student_tracking[id] ]_vars
    /\ []((pc = "process" /\ remaining = 2) =>
             \A bbox_a \in Boxes, bbox_b \in Boxes :
                 \A t_a \in NextReadings, t_b \in NextReadings :
                     AfterBoth(NoneId, bbox_a, t_a, 1, bbox_b, t_b)
                         = AfterBoth(1, bbox_b, t_b, NoneId, bbox_a, t_a))

\* both ids observed in one frame, one with a zone and one without
C18_Witness ==
    /\ pc = "process"
    /\ seen = Ids
    /\ \E a \in Ids, b \in Ids : a # b /\ Zoned(a) /\ Pending(b)

\* C19: a failed read ends the loop at once, without a call and without a
\* change of the registry, and the loop stays ended; the next frame is read
\* only when every box of the current results was iterated, which always
\* comes about.
C19_LoopEnds ==
    /\ [][ /\ pc' = "done" =>
                 /\ pc \in {"read", "done"}
                 /\ UNCHANGED <<student_tracking, last, now, remaining>>
           /\ pc = "done" => pc' = "done"
           /\ (pc = "process" /\ pc' # "process") =>
                 (pc' = "read" /\ remaining = 0)
           /\ (pc = "process" /\ pc' = "process") => remaining' = remaining - 1
         ]_vars
    /\ (pc = "process") ~> (pc = "read")

\* the loop ended with tracks registered
C19_Witness ==
    /\ pc = "done"
    /\ \E id \in Ids : Zoned(id)
    /\ remaining = 0

\* C20: once the key None is registered, every call without tracker id is
\* an observation of that one track: no entry is added, its creation_time
\* stays, its current_bbox becomes the box of the call, and its zone is
\* frozen from the box of the call made once the dwell threshold elapsed.
C20_IdlessShareOneTrack ==
    [][ (CallStep /\ last'.track_id = NoneId /\ Known(NoneId)) =>
            /\ last'.path # "new"
            /\ DOMAIN student_tracking' = DOMAIN student_tracking
            /\ student_tracking'[NoneId].creation_time =
                   student_tracking[NoneId].creation_time
            /\ student_tracking'[NoneId].current_bbox = last'.bbox
            /\ (Pending(NoneId) /\
                   now' - student_tracking[NoneId].creation_time >= DwellTicks) =>
                   student_tracking'[NoneId].fixed_zone = create_fixed_zone(last'.bbox)
            /\ Zoned(NoneId) =>
                   /\ student_tracking'[NoneId].fixed_zone =
                          student_tracking[NoneId].fixed_zone
                   /\ last'.draws[1][2] = GREEN <=>
                          is_box_in_zone(last'.bbox, student_tracking[NoneId].fixed_zone)
      ]_vars

\* a detection without id drawn in red against the zone frozen from another
\* detection without id
C20_Witness ==
    /\ last.track_id = NoneId
    /\ last.path = "zoned"
    /\ last.draws[1][2] = RED
    /\ student_tracking[NoneId].current_bbox = last.bbox

----------------------------------------------------------------------------
(* Properties of the geometry helpers *)

g_width == g_bbox[3] - g_bbox[1]
g_height == g_bbox[4] - g_bbox[2]

\* the margins create_fixed_zone left between g_bbox and g_zone
g_left == g_bbox[1] - g_zone[1][1]
g_top == g_bbox[2] - g_zone[1][2]
g_right == g_zone[2][1] - g_bbox[3]
g_bottom == g_zone[2][2] - g_bbox[4]

\* C7: for every valid box B, is_box_in_zone(B, create_fixed_zone(B)).
C7_ExpandedContainsOriginal ==
    (g_result.expanded /\ g_result.tested) => g_result.in_zone

\* a box too narrow for a margin, tested against its own expansion
C7_Witness ==
    /\ g_result.expanded /\ g_result.tested /\ g_result.in_zone
    /\ g_width > 0 /\ g_left = 0
    /\ g_bottom > 0

\* C8 as stated: the expansion of a box with x1 < x2 and y1 < y2 has all
\* four edges strictly outside the box.
C8_StrictlyContains ==
    (g_result.expanded /\ g_width > 0 /\ g_height > 0) =>
        /\ g_left > 0 /\ g_top > 0
        /\ g_right > 0 /\ g_bottom > 0

\* C8 amended: the left and right edges are strictly outside the box
\* exactly when the width is at least 20, the top and bottom edges exactly
\* when the height is at least 20; otherwise they coincide with the box's.
C8_StrictFromTwentyPixels ==
    g_result.expanded =>
        /\ g_width >= 20 => (g_left > 0 /\ g_right > 0)
        /\ g_height >= 20 => (g_top > 0 /\ g_bottom > 0)
        /\ g_width < 20 => (g_left = 0 /\ g_right = 0)
        /\ g_height < 20 => (g_top = 0 /\ g_bottom = 0)

\* a box of at least 20 by 20 and its expansion
C8_Witness ==
    /\ g_result.expanded
    /\ g_width >= 20 /\ g_height >= 20
    /\ g_left > 0 /\ g_top > 0 /\ g_right > 0 /\ g_bottom > 0

\* C9 as stated: every edge moves outward by exactly 0.05 times the
\* dimension (20 margins make one dimension).
C9_ExactFivePercent ==
    g_result.expanded =>
        /\ 20 * g_left = g_width /\ 20 * g_right = g_width
        /\ 20 * g_top = g_height /\ 20 * g_bottom = g_height

\* C9 amended: every edge moves outward by the integer part of 0.05 times
\* the dimension, the same on opposite edges, and a zero-area box gives a
\* zero-area zone.
C9_TruncatedFivePercent ==
    g_result.expanded =>
        /\ g_left = g_right /\ g_top = g_bottom
        /\ 20 * g_left <= g_width /\ g_width < 20 * (g_left + 1)
        /\ 20 * g_top <= g_height /\ g_height < 20 * (g_top + 1)
        /\ (g_width * g_height = 0) =>
               (g_zone[2][1] - g_zone[1][1]) * (g_zone[2][2] - g_zone[1][2]) = 0

\* a box whose width is no multiple of 20, with a margin
C9_Witness ==
    /\ g_result.expanded
    /\ g_width % 20 # 0
    /\ g_left > 0
    /\ g_height = 0 /\ g_zone[2][2] = g_zone[1][2]

\* C10: is_box_in_zone(box, zone) holds exactly if both corners of box lie
\* in the closed rectangle zone; one corner inside and one outside gives
\* false; a box against the zone of the same coordinates gives true.
C10_CornerContainment ==
    g_result.tested =>
        LET CornerIn(x, y) == /\ g_zone[1][1] <= x /\ x <= g_zone[2][1]
                              /\ g_zone[1][2] <= y /\ y <= g_zone[2][2]
            first == CornerIn(g_bbox[1], g_bbox[2])
            second == CornerIn(g_bbox[3], g_bbox[4])
        IN  /\ g_result.in_zone <=> (first /\ second)
            /\ (first /\ ~second) => ~g_result.in_zone
            /\ (second /\ ~first) => ~g_result.in_zone
            /\ BoxShape(g_bbox) = g_zone => g_result.in_zone

\* a box with its first corner on the zone's edge and its second outside
C10_Witness ==
    /\ g_result.tested /\ ~g_result.expanded
    /\ g_bbox[1] = g_zone[2][1] /\ g_bbox[2] = g_zone[2][2]
    /\ g_bbox[3] > g_zone[2][1]
    /\ ~g_result.in_zone

----------------------------------------------------------------------------
====
